---- MODULE Spec2Model ----
(***************************************************************************)
(* Model of the info-seeker backend: the per-session progress bus          *)
(* (services/sse_manager.py, SearchProgressManager) and the hybrid-search  *)
(* pipeline that publishes on it (agents/team_coordinator.py,              *)
(* MultiAgentSearchTeam.execute_hybrid_search, started from api/search.py).*)
(*                                                                         *)
(* Time is counted in ticks of 100 ms, so the manager's                    *)
(* message_throttle_interval of 0.5 s is 5 ticks.                          *)
(***************************************************************************)
EXTENDS Integers, Sequences, FiniteSets, TLC

\* ------------------------------------------------------------------ bounds
MaxTime == 10
MaxEvents == 3
MaxStream == 1
MaxEvals == 1
MaxInputLen == 3

\* --------------------------------------------------------------- constants
message_throttle_interval == 5
\* "if heartbeat_counter >= 10" in event_stream
HeartbeatEvery == 10
\* ContentProcessor.min_content_length
min_content_length == 50

\* the clock advances by just under the throttle interval or by the interval
TickSteps == {message_throttle_interval - 1, message_throttle_interval}

Sessions == {"s1", "s2"}
NoAgent == "-"
BusAgents == {"Agent"}
CriticalStatuses == {"started", "completed", "failed"}
\* the statuses the callers of the bus are drawn from: one the code lets
\* through ("completed" and "failed" are tested by the same membership), the
\* status "error", and an informational one
Statuses == {"started", "error", "processing"}
\* the always-pass set as the specification states it
AlwaysPass == {"started", "completed", "failed", "error"}

VARIABLES
    \* SearchProgressManager fields (python dicts: functions on the keys present)
    active_sessions,
    session_queues,
    session_data,
    last_message_time,
    \* wall clock, time.time(), in ticks
    now,
    \* history: per session the events enqueued on, and the events get_message
    \* returned from, the current connection, each named by its uid (its
    \* position among the enqueued ones); per session the time the last
    \* progress event outside AlwaysPass was enqueued (0: none yet); the
    \* sessions that were ever connected; the last manager call and its outcome
    accepted,
    delivered,
    lastInfo,
    everConnected,
    lastOp,
    \* one hybrid-search run: the POST /search/hybrid background task, the
    \* coroutine MultiAgentSearchTeam.execute_hybrid_search with its locals,
    \* the coroutines _run_agent_with_progress (slots "rag", "web", "seq"),
    \* and, as history, the publish calls of the run (per agent the statuses
    \* it published in order, the terminal events in order, the last publish)
    \* and the capability calls that raised
    api,
    team,
    tasks,
    pubLog,
    raisedIn,
    \* the inputs and the result of one call of a pure computation of the
    \* result assembly (source extraction, scoring), for the specifications
    \* that exercise these computations on their own
    calc

busVars == <<active_sessions, session_queues, session_data, last_message_time,
             accepted, delivered, lastInfo, everConnected, lastOp>>
runVars == <<api, team, tasks, pubLog, raisedIn, calc>>
vars == <<active_sessions, session_queues, session_data, last_message_time,
          now, accepted, delivered, lastInfo, everConnected, lastOp,
          api, team, tasks, pubLog, raisedIn, calc>>

\* ----------------------------------------------------------- dict helpers
DictSet(d, k, v) == [x \in (DOMAIN d) \cup {k} |-> IF x = k THEN v ELSE d[x]]
DictDel(d, k) == [x \in (DOMAIN d) \ {k} |-> d[x]]
DictGet(d, k, default) == IF k \in DOMAIN d THEN d[k] ELSE default
EmptyDict == [x \in {} |-> TRUE]

Event(s, type, agent, status) ==
    [type |-> type, agent |-> agent, status |-> status, uid |-> Len(accepted[s]) + 1]

Op(op, s, status, ret) ==
    [op |-> op, sid |-> s, status |-> status, ret |-> ret]

\* a queue that puts at the head (a LIFO queue)
QueuePutFront(q, e) == <<e>> \o q

\* asyncio.Queue.put on the unbounded queue: append at the tail
QueuePut(q, e) == Append(q, e)

\* a throttle test that compares against one tick less than the interval
ThrottledShort(cur, last, status) ==
    (cur - last) < message_throttle_interval - 1 /\ status \notin CriticalStatuses

\* the throttle test of broadcast_progress
Throttled(cur, last, status) ==
    (cur - last) < message_throttle_interval /\ status \notin CriticalStatuses

\* get_message without its guard
QueueKnownAlways(s) == TRUE

\* the guard of get_message
QueueKnown(s) == s \in DOMAIN session_queues

\* ------------------------------------------------------------ bus operations
Connect(s) ==
    /\ active_sessions' = DictSet(active_sessions, s, TRUE)
    /\ session_queues' = DictSet(session_queues, s, <<>>)
    /\ session_data' = IF s \in DOMAIN session_data THEN session_data
                       ELSE DictSet(session_data, s, [status |-> "connected", agents |-> EmptyDict])
    /\ accepted' = [accepted EXCEPT ![s] = <<>>]
    /\ delivered' = [delivered EXCEPT ![s] = <<>>]
    /\ everConnected' = everConnected \cup {s}
    /\ lastOp' = Op("connect", s, NoAgent, "ok")
    /\ UNCHANGED <<last_message_time, lastInfo>>

\* a disconnect that clears the dicts instead of deleting one key
DisconnectAll(s) ==
    /\ active_sessions' = EmptyDict
    /\ session_queues' = EmptyDict
    /\ accepted' = [accepted EXCEPT ![s] = <<>>]
    /\ delivered' = [delivered EXCEPT ![s] = <<>>]
    /\ lastOp' = Op("disconnect", s, NoAgent, "ok")
    /\ UNCHANGED <<session_data, last_message_time, lastInfo, everConnected>>

Disconnect(s) ==
    /\ active_sessions' = DictDel(active_sessions, s)
    /\ session_queues' = DictDel(session_queues, s)
    /\ accepted' = [accepted EXCEPT ![s] = <<>>]
    /\ delivered' = [delivered EXCEPT ![s] = <<>>]
    /\ lastOp' = Op("disconnect", s, NoAgent, "ok")
    /\ UNCHANGED <<session_data, last_message_time, lastInfo, everConnected>>

GetMessage(s) ==
    IF ~QueueKnown(s)
    THEN /\ lastOp' = Op("get_message", s, NoAgent, "none")
         /\ UNCHANGED <<active_sessions, session_queues, session_data, last_message_time,
                        accepted, delivered, lastInfo, everConnected>>
    ELSE IF s \notin DOMAIN session_queues
    THEN \* KeyError on self.session_queues[session_id]
         /\ lastOp' = Op("get_message", s, NoAgent, "raised")
         /\ UNCHANGED <<active_sessions, session_queues, session_data, last_message_time,
                        accepted, delivered, lastInfo, everConnected>>
    ELSE IF session_queues[s] = <<>>
    THEN \* asyncio.QueueEmpty is caught
         /\ lastOp' = Op("get_message", s, NoAgent, "none")
         /\ UNCHANGED <<active_sessions, session_queues, session_data, last_message_time,
                        accepted, delivered, lastInfo, everConnected>>
    ELSE /\ session_queues' = [session_queues EXCEPT ![s] = Tail(@)]
         /\ delivered' = [delivered EXCEPT ![s] = Append(@, Head(session_queues[s]).uid)]
         /\ lastOp' = Op("get_message", s, NoAgent, "msg")
         /\ UNCHANGED <<active_sessions, session_data, last_message_time,
                        accepted, lastInfo, everConnected>>

\* session_data[s]['agents']: the entry of agent_name is updated or added (the
\* status, message and details it stores are read by no manager operation)
TrackAgent(s, agent, status) ==
    IF s \in DOMAIN session_data
    THEN [session_data EXCEPT ![s].agents = DictSet(@, agent, TRUE)]
    ELSE session_data

\* a progress event whose status is outside the always-pass set
IsInfo(e) == e.type = "progress_update" /\ e.status \notin AlwaysPass

\* the tail without "self.last_message_time[session_id] = current_time"
EnqueueNoStamp(s, e, op, stampTime) ==
    IF s \in DOMAIN session_queues
    THEN /\ session_queues' = [session_queues EXCEPT ![s] = Append(@, e)]
         /\ accepted' = [accepted EXCEPT ![s] = Append(@, e.uid)]
         /\ last_message_time' = last_message_time
         /\ lastInfo' = IF IsInfo(e) THEN [lastInfo EXCEPT ![s] = now] ELSE lastInfo
         /\ lastOp' = Op(op, s, e.status, "enqueued")
    ELSE /\ lastOp' = Op(op, s, e.status, "dropped")
         /\ UNCHANGED <<session_queues, accepted, last_message_time,
                        lastInfo>>

\* the tail shared by the publish operations: "if session_id in
\* self.session_queues: put"
Enqueue(s, e, op, stampTime) ==
    IF s \in DOMAIN session_queues
    THEN /\ session_queues' = [session_queues EXCEPT ![s] = QueuePut(@, e)]
         /\ accepted' = [accepted EXCEPT ![s] = Append(@, e.uid)]
         /\ last_message_time' = IF stampTime THEN DictSet(last_message_time, s, now)
                                 ELSE last_message_time
         /\ lastInfo' = IF IsInfo(e) THEN [lastInfo EXCEPT ![s] = now] ELSE lastInfo
         /\ lastOp' = Op(op, s, e.status, "enqueued")
    ELSE /\ lastOp' = Op(op, s, e.status, "dropped")
         /\ UNCHANGED <<session_queues, accepted, last_message_time,
                        lastInfo>>

BroadcastProgress(s, agent, status) ==
    /\ UNCHANGED <<active_sessions, delivered, everConnected>>
    /\ IF s \notin DOMAIN active_sessions
       THEN /\ lastOp' = Op("broadcast_progress", s, status, "dropped")
            /\ UNCHANGED <<session_queues, session_data, last_message_time, accepted,
                           lastInfo>>
       ELSE IF Throttled(now, DictGet(last_message_time, s, 0), status)
       THEN /\ lastOp' = Op("broadcast_progress", s, status, "throttled")
            /\ UNCHANGED <<session_queues, session_data, last_message_time, accepted,
                           lastInfo>>
       ELSE /\ session_data' = TrackAgent(s, agent, status)
            /\ Enqueue(s, Event(s, "progress_update", agent, status), "broadcast_progress", TRUE)

BroadcastFinalResult(s) ==
    /\ UNCHANGED <<active_sessions, session_data, delivered, everConnected>>
    /\ IF s \notin DOMAIN active_sessions
       THEN /\ lastOp' = Op("broadcast_final_result", s, "completed", "dropped")
            /\ UNCHANGED <<session_queues, last_message_time, accepted,
                           lastInfo>>
       ELSE Enqueue(s, Event(s, "final_result", NoAgent, "completed"), "broadcast_final_result", FALSE)

\* a broadcast_error routed through the throttle test and the timestamp of
\* broadcast_progress
BroadcastErrorThrottled(s) ==
    /\ UNCHANGED <<active_sessions, session_data, delivered, everConnected>>
    /\ IF s \notin DOMAIN active_sessions
       THEN /\ lastOp' = Op("broadcast_error", s, NoAgent, "dropped")
            /\ UNCHANGED <<session_queues, last_message_time, accepted,
                           lastInfo>>
       ELSE IF Throttled(now, DictGet(last_message_time, s, 0), "error")
       THEN /\ lastOp' = Op("broadcast_error", s, NoAgent, "throttled")
            /\ UNCHANGED <<session_queues, last_message_time, accepted,
                           lastInfo>>
       ELSE Enqueue(s, Event(s, "error", NoAgent, NoAgent), "broadcast_error", TRUE)

BroadcastError(s) ==
    /\ UNCHANGED <<active_sessions, session_data, delivered, everConnected>>
    /\ IF s \notin DOMAIN active_sessions
       THEN /\ lastOp' = Op("broadcast_error", s, NoAgent, "dropped")
            /\ UNCHANGED <<session_queues, last_message_time, accepted,
                           lastInfo>>
       ELSE Enqueue(s, Event(s, "error", NoAgent, NoAgent), "broadcast_error", FALSE)

\* ------------------------------------------------------ the run: values
\* the session id of the one modelled run
RunSession == "s1"

Orchestrator == "Search Orchestrator"
Validator == "Information Validator"
AgentName(kind) ==
    CASE kind = "rag" -> "RAG Specialist"
      [] kind = "web" -> "Web Search Specialist"
      [] kind = "synthesis" -> "Information Synthesizer"
      [] kind = "answer" -> "Answer Generator"

\* python values: None, an unbound local, an exception object, and a
\* RunResponse with its text (the urls the text mentions) and, when the
\* response carries one, a structured search_results list
NoneVal == [kind |-> "None"]
Unbound == [kind |-> "unbound"]
Exc(of) == [kind |-> "exception", of |-> of]
Response(of, urls, search_results) ==
    [kind |-> "response", of |-> of, urls |-> urls, search_results |-> search_results]
IsException(v) == v.kind = "exception"
\* "x and hasattr(x, 'content')"
HasContent(v) == v.kind = "response"

\* what a capability can answer, per agent
Responses(kind) ==
    CASE kind = "rag" -> {Response("rag", <<"u1">>, <<>>)}
      [] kind = "web" -> {Response("web", <<"u1", "u2">>, <<>>),
                          Response("web", <<>>, <<[url |-> "u2", content_len |-> 400,
                                                   source_type |-> "web_search"]>>)}
      [] kind = "synthesis" -> {Response("synthesis", <<>>, <<>>)}
      [] kind = "answer" -> {Response("answer", <<>>, <<>>)}

\* the parameters of MultiAgentSearchTeam.execute_hybrid_search and the
\* keyword arguments api/search.py passes to it
TeamParams == {"query", "include_rag", "include_web", "max_results"}
ApiCallKwargs == {"query", "include_rag", "include_web", "include_site_specific",
                  "target_sites", "max_results"}
\* python binds a call only if every keyword names a parameter (TypeError otherwise)
CallBinds(kwargs, params) == kwargs \subseteq params

\* _combine_search_results: the query, then one labelled section per
\* branch result that has content
CombineSearchResults(rag_result, web_result) ==
    <<[label |-> "Query", of |-> "query"]>>
    \o (IF HasContent(rag_result)
        THEN <<[label |-> "RAG Search Results", of |-> rag_result.of]>> ELSE <<>>)
    \o (IF HasContent(web_result)
        THEN <<[label |-> "Web Search Results", of |-> web_result.of]>> ELSE <<>>)

\* _extract_sources_from_results, one result: the structured list when
\* there is one, else the urls found in the text
\* (a source is its url, the length of its content snippet, its source_type
\* and the branch it came from; a structured entry without url or content
\* has url "" and content_len 0, the defaults of .get)
SnippetLen(n) == IF n > 300 THEN 300 + 3 ELSE n
ExtractOne(result) ==
    IF ~HasContent(result) THEN <<>>
    ELSE IF result.search_results # <<>>
    THEN [i \in 1..Len(result.search_results) |->
            [url |-> result.search_results[i].url,
             content_len |-> SnippetLen(result.search_results[i].content_len),
             source_type |-> result.search_results[i].source_type,
             of |-> result.of]]
    ELSE [i \in 1..Len(result.urls) |->
            [url |-> result.urls[i], content_len |-> 0,
             source_type |-> "extracted", of |-> result.of]]

ExtractSourcesFromResults(results) ==
    ExtractOne(results[1]) \o ExtractOne(results[2])

\* ------------------------------------------- the run: _run_agent_with_progress
\* Positions of one wrapped agent run. w_*: the publishes of
\* _run_agent_with_progress; a_*: those of the agent's own arun override
\* (RAGAgent, SynthesisAgent, AnswerAgent); step*, sleep*, stream: those of
\* BaseStreamingAgent.arun_with_streaming; capability: the awaited model call.
NoTask == [kind |-> "none", pc |-> "none", result |-> Unbound, streamed |-> 0]
NewTask(kind) == [kind |-> kind, pc |-> "w_started", result |-> Unbound, streamed |-> 0]
\* an await that returns as soon as the task exists
TaskDoneEarly(t) == t.pc # "none"
TaskDone(t) == t.pc \in {"returned", "raised"}

Streaming(kind) == kind \in {"synthesis", "answer"}

\* the publish made at a position, and the position after it
PublishAt(pc) ==
    CASE pc \in {"w_started", "a_started"} -> "started"
      [] pc = "a_processing" -> "processing"
      [] pc \in {"step1", "step2", "step3", "step4"} -> "reasoning"
      [] pc \in {"a_completed", "w_completed"} -> "completed"
      [] pc \in {"a_failed", "w_failed"} -> "failed"

PublishPcs == {"w_started", "a_started", "a_processing", "step1", "step2", "step3",
               "step4", "a_completed", "w_completed", "a_failed", "w_failed"}

\* a wrapper whose except block does not re-raise
AfterPublishSwallow(kind, pc) ==
    CASE pc = "w_started" -> IF kind = "web" THEN "capability" ELSE "a_started"
      [] pc = "a_started" -> IF kind = "rag" THEN "a_processing" ELSE "step1"
      [] pc = "a_processing" -> "capability"
      [] pc = "step1" -> "sleep1"
      [] pc = "step2" -> "sleep2"
      [] pc = "step3" -> "capability"
      [] pc = "step4" -> "a_completed"
      [] pc = "a_completed" -> "w_completed"
      [] pc = "w_completed" -> "returned"
      [] pc = "a_failed" -> "w_failed"
      [] pc = "w_failed" -> "returned"

AfterPublish(kind, pc) ==
    CASE pc = "w_started" -> IF kind = "web" THEN "capability" ELSE "a_started"
      [] pc = "a_started" -> IF kind = "rag" THEN "a_processing" ELSE "step1"
      [] pc = "a_processing" -> "capability"
      [] pc = "step1" -> "sleep1"
      [] pc = "step2" -> "sleep2"
      [] pc = "step3" -> "capability"
      [] pc = "step4" -> "a_completed"
      [] pc = "a_completed" -> "w_completed"
      [] pc = "w_completed" -> "returned"
      [] pc = "a_failed" -> "w_failed"
      [] pc = "w_failed" -> "raised"

\* where a capability call that returned, or raised, continues
AfterCapability(kind, ok) ==
    IF ok THEN (IF kind = "web" THEN "w_completed"
                ELSE IF kind = "rag" THEN "a_completed" ELSE "step4")
    ELSE (IF kind = "web" THEN "w_failed" ELSE "a_failed")

\* ------------------------------------------------------ the run: publishing
LogEntry(type, agent, status) == [type |-> type, agent |-> agent, status |-> status]
EmptyLog == [byAgent |-> EmptyDict, terminals |-> <<>>, last |-> LogEntry("none", NoAgent, NoAgent)]
Logged(log, e) ==
    [byAgent |-> IF e.type = "progress_update"
                 THEN DictSet(log.byAgent, e.agent, Append(DictGet(log.byAgent, e.agent, <<>>), e.status))
                 ELSE log.byAgent,
     terminals |-> IF e.type \in {"final_result", "error"}
                   THEN Append(log.terminals, e.type) ELSE log.terminals,
     last |-> e]

\* MultiAgentSearchTeam._broadcast_progress and the agents' own
\* progress_manager.broadcast_progress calls
RunPublish(agent, status) ==
    /\ BroadcastProgress(RunSession, agent, status)
    /\ pubLog' = Logged(pubLog, LogEntry("progress_update", agent, status))
    /\ UNCHANGED <<now, calc>>

RunSilent == UNCHANGED <<busVars, now, pubLog, calc>>

\* ------------------------------------------------- the run: one wrapped agent
TaskPublish(slot) ==
    LET t == tasks[slot] IN
    /\ t.pc \in PublishPcs
    /\ RunPublish(AgentName(t.kind), PublishAt(t.pc))
    /\ tasks' = [tasks EXCEPT ![slot].pc = AfterPublish(t.kind, t.pc)]
    /\ UNCHANGED <<api, team, raisedIn>>

\* asyncio.sleep(0.5) between the reasoning steps
TaskSleep(slot) ==
    LET t == tasks[slot] IN
    /\ t.pc \in {"sleep1", "sleep2"}
    /\ now' = now + message_throttle_interval
    /\ tasks' = [tasks EXCEPT ![slot].pc = IF t.pc = "sleep1" THEN "step2" ELSE "step3"]
    /\ UNCHANGED <<busVars, api, team, pubLog, raisedIn, calc>>

\* an event of the response stream, forwarded by _broadcast_agent_event
TaskStreamEvent(slot) ==
    LET t == tasks[slot] IN
    /\ t.pc = "capability"
    /\ Streaming(t.kind)
    /\ t.streamed < MaxStream
    /\ RunPublish(AgentName(t.kind), "streaming")
    /\ tasks' = [tasks EXCEPT ![slot].streamed = @ + 1]
    /\ UNCHANGED <<api, team, raisedIn>>

TaskCapabilityReturns(slot) ==
    LET t == tasks[slot] IN
    /\ t.pc = "capability"
    /\ \E r \in Responses(t.kind) :
         tasks' = [tasks EXCEPT ![slot].pc = AfterCapability(t.kind, TRUE),
                                ![slot].result = r]
    /\ RunSilent
    /\ UNCHANGED <<api, team, raisedIn>>

TaskCapabilityRaises(slot) ==
    LET t == tasks[slot] IN
    /\ t.pc = "capability"
    /\ tasks' = [tasks EXCEPT ![slot].pc = AfterCapability(t.kind, FALSE),
                              ![slot].result = Exc(t.kind)]
    /\ raisedIn' = raisedIn \cup {t.kind}
    /\ RunSilent
    /\ UNCHANGED <<api, team>>

\* ------------------------------------------------------ the run: triggers
IdleTeam ==
    [pc |-> "idle", include_rag |-> FALSE, include_web |-> FALSE,
     rag_result |-> Unbound, web_result |-> Unbound,
     combined_context |-> <<>>, all_sources |-> <<>>,
     synthesis_result |-> Unbound, validation_result |-> Unbound,
     fact_check |-> "none", final_answer |-> Unbound,
     metadata |-> Unbound,
     phases |-> <<>>, outcome |-> "pending"]

StartedTeam(ir, iw) == [IdleTeam EXCEPT !.pc = "init", !.include_rag = ir, !.include_web = iw]

\* POST /search/hybrid: the run is queued as a background task and the
\* acknowledgement is returned at once
HybridSearch ==
    /\ api.pc = "idle"
    /\ team.pc = "idle"
    /\ \E ir \in BOOLEAN, iw \in BOOLEAN :
         api' = [pc |-> "background", include_rag |-> ir, include_web |-> iw]
    /\ RunSilent
    /\ UNCHANGED <<team, tasks, raisedIn>>

\* api/search.py execute_hybrid_search: create the team and call its
\* execute_hybrid_search; any exception is logged and swallowed
ApiExecuteHybridSearch ==
    /\ api.pc = "background"
    /\ IF CallBinds(ApiCallKwargs, TeamParams)
       THEN /\ team' = StartedTeam(api.include_rag, api.include_web)
            /\ api' = [api EXCEPT !.pc = "awaiting"]
       ELSE /\ api' = [api EXCEPT !.pc = "done"]
            /\ UNCHANGED team
    /\ RunSilent
    /\ UNCHANGED <<tasks, raisedIn>>

\* a direct call of MultiAgentSearchTeam.execute_hybrid_search
DirectCall ==
    /\ api.pc = "idle"
    /\ team.pc = "idle"
    /\ \E ir \in BOOLEAN, iw \in BOOLEAN : team' = StartedTeam(ir, iw)
    /\ api' = [api EXCEPT !.pc = "direct"]
    /\ RunSilent
    /\ UNCHANGED <<tasks, raisedIn>>

\* ------------------------- the run: MultiAgentSearchTeam.execute_hybrid_search
\* asyncio.gather without return_exceptions: the first exception is raised
GatherRaises(rag, web) == IsException(rag) \/ IsException(web)

\* asyncio.gather(rag_task, web_task, return_exceptions=True): whether an
\* exception of a task is raised out of the await
GatherPropagates(rag, web) == FALSE

\* whether an exception inside validate_information reaches its caller: the
\* method catches every exception and returns an error dict
ValidationPropagates(raised) == FALSE

\* _initialize_search_session
TeamInit ==
    /\ team.pc = "init"
    /\ RunPublish(Orchestrator, "started")
    /\ team' = [team EXCEPT !.pc = "fanout"]
    /\ UNCHANGED <<api, tasks, raisedIn>>

TeamFanOutBoth ==
    /\ team.pc = "fanout"
    /\ team.include_rag /\ team.include_web
    /\ RunPublish(Orchestrator, "started")
    /\ tasks' = [tasks EXCEPT !["rag"] = NewTask("rag"), !["web"] = NewTask("web")]
    /\ team' = [team EXCEPT !.pc = "join", !.phases = Append(@, "retrieval")]
    /\ UNCHANGED <<api, raisedIn>>

TeamFanOutSingle ==
    /\ team.pc = "fanout"
    /\ team.include_rag # team.include_web
    /\ RunPublish(Orchestrator, "started")
    /\ LET slot == IF team.include_rag THEN "rag" ELSE "web" IN
         tasks' = [tasks EXCEPT ![slot] = NewTask(slot)]
    /\ team' = [team EXCEPT !.pc = "single", !.phases = Append(@, "retrieval")]
    /\ UNCHANGED <<api, raisedIn>>

TeamFanOutNone ==
    /\ team.pc = "fanout"
    /\ ~team.include_rag /\ ~team.include_web
    /\ team' = [team EXCEPT !.pc = "extract",
                            !.combined_context = <<[label |-> "Query", of |-> "query"],
                                                   [label |-> "No search sources enabled", of |-> "query"]>>]
    /\ RunSilent
    /\ UNCHANGED <<api, tasks, raisedIn>>

\* the await of gather returns once both tasks are done
TeamJoin ==
    /\ team.pc = "join"
    /\ TaskDone(tasks["rag"]) /\ TaskDone(tasks["web"])
    /\ IF GatherPropagates(tasks["rag"].result, tasks["web"].result)
       THEN team' = [team EXCEPT !.pc = "except"]
       ELSE team' = [team EXCEPT !.pc = "handle_rag",
                                 !.rag_result = tasks["rag"].result,
                                 !.web_result = tasks["web"].result]
    /\ RunSilent
    /\ UNCHANGED <<api, tasks, raisedIn>>

TeamHandleRag ==
    /\ team.pc = "handle_rag"
    /\ IF IsException(team.rag_result)
       THEN /\ RunPublish(AgentName("rag"), "failed")
            /\ team' = [team EXCEPT !.pc = "handle_web", !.rag_result = NoneVal]
       ELSE /\ RunSilent
            /\ team' = [team EXCEPT !.pc = "handle_web"]
    /\ UNCHANGED <<api, tasks, raisedIn>>

TeamHandleWeb ==
    /\ team.pc = "handle_web"
    /\ IF IsException(team.web_result)
       THEN /\ RunPublish(AgentName("web"), "failed")
            /\ team' = [team EXCEPT
                   !.pc = "extract", !.web_result = NoneVal,
                   !.combined_context = CombineSearchResults(team.rag_result, NoneVal)]
       ELSE /\ RunSilent
            /\ team' = [team EXCEPT
                   !.pc = "extract",
                   !.combined_context = CombineSearchResults(team.rag_result, team.web_result)]
    /\ UNCHANGED <<api, tasks, raisedIn>>

\* "rag_result = await self._run_agent_with_progress(...)" with one branch
\* enabled: the result is bound, or the exception leaves the try block
TeamSingle ==
    /\ team.pc = "single"
    /\ LET slot == IF team.include_rag THEN "rag" ELSE "web"
           t == tasks[slot] IN
         /\ TaskDone(t)
         /\ IF t.pc = "raised"
            THEN team' = [team EXCEPT !.pc = "except"]
            ELSE IF slot = "rag"
            THEN team' = [team EXCEPT
                     !.pc = "extract", !.rag_result = t.result,
                     !.combined_context = CombineSearchResults(t.result, NoneVal)]
            ELSE team' = [team EXCEPT
                     !.pc = "extract", !.web_result = t.result,
                     !.combined_context = CombineSearchResults(NoneVal, t.result)]
    /\ RunSilent
    /\ UNCHANGED <<api, tasks, raisedIn>>

TeamExtract ==
    /\ team.pc = "extract"
    /\ team' = [team EXCEPT
           !.pc = "synthesis",
           !.all_sources = ExtractSourcesFromResults(
               <<IF team.include_rag THEN team.rag_result ELSE NoneVal,
                 IF team.include_web THEN team.web_result ELSE NoneVal>>),
           !.phases = Append(@, "synthesis")]
    /\ tasks' = [tasks EXCEPT !["seq"] = NewTask("synthesis")]
    /\ RunSilent
    /\ UNCHANGED <<api, raisedIn>>

TeamSynthesis ==
    /\ team.pc = "synthesis"
    /\ TaskDone(tasks["seq"])
    /\ IF tasks["seq"].pc = "raised"
       THEN team' = [team EXCEPT !.pc = "except"]
       ELSE team' = [team EXCEPT !.pc = "val_started",
                                 !.synthesis_result = tasks["seq"].result]
    /\ RunSilent
    /\ UNCHANGED <<api, tasks, raisedIn>>

\* the coordinator's own "started" for the validator
TeamValStarted ==
    /\ team.pc = "val_started"
    /\ RunPublish(Validator, "started")
    /\ team' = [team EXCEPT !.pc = "v_a_started", !.phases = Append(@, "validation")]
    /\ UNCHANGED <<api, tasks, raisedIn>>

\* ValidationAgent.validate_information
ValidationDict(status, analysis) == [kind |-> "dict", status |-> status, analysis |-> analysis]

ValAgentStarted ==
    /\ team.pc = "v_a_started"
    /\ RunPublish(Validator, "started")
    /\ team' = [team EXCEPT !.pc = "v_factcheck"]
    /\ UNCHANGED <<api, tasks, raisedIn>>

\* _perform_fact_check: skipped without claims; its own failure is caught
ValFactCheck ==
    /\ team.pc = "v_factcheck"
    /\ \E fc \in {"none", "ok", "failed"} :
         /\ team' = [team EXCEPT !.pc = "v_capability", !.fact_check = fc]
         /\ raisedIn' = IF fc = "failed" THEN raisedIn \cup {"factcheck"} ELSE raisedIn
    /\ RunSilent
    /\ UNCHANGED <<api, tasks>>

ValCapabilityReturns ==
    /\ team.pc = "v_capability"
    /\ team' = [team EXCEPT !.pc = "v_a_completed"]
    /\ RunSilent
    /\ UNCHANGED <<api, tasks, raisedIn>>

ValCapabilityRaises ==
    /\ team.pc = "v_capability"
    /\ team' = [team EXCEPT !.pc = "v_a_failed"]
    /\ raisedIn' = raisedIn \cup {"validation"}
    /\ RunSilent
    /\ UNCHANGED <<api, tasks>>

ValAgentCompleted ==
    /\ team.pc = "v_a_completed"
    /\ RunPublish(Validator, "completed")
    /\ team' = [team EXCEPT !.pc = "val_return",
                            !.validation_result = ValidationDict("success", TRUE)]
    /\ UNCHANGED <<api, tasks, raisedIn>>

ValAgentFailed ==
    /\ team.pc = "v_a_failed"
    /\ RunPublish(Validator, "failed")
    /\ team' = [team EXCEPT !.pc = "val_return",
                            !.validation_result = IF ValidationPropagates(TRUE)
                                                  THEN Exc("validation")
                                                  ELSE ValidationDict("error", FALSE)]
    /\ UNCHANGED <<api, tasks, raisedIn>>

\* back in the coordinator: "completed", or "failed" and re-raise
TeamValReturn ==
    /\ team.pc = "val_return"
    /\ IF IsException(team.validation_result)
       THEN /\ RunPublish(Validator, "failed")
            /\ team' = [team EXCEPT !.pc = "except"]
            /\ UNCHANGED tasks
       ELSE /\ RunPublish(Validator, "completed")
            /\ team' = [team EXCEPT !.pc = "answer", !.phases = Append(@, "answer")]
            /\ tasks' = [tasks EXCEPT !["seq"] = NewTask("answer")]
    /\ UNCHANGED <<api, raisedIn>>

TeamAnswer ==
    /\ team.pc = "answer"
    /\ TaskDone(tasks["seq"])
    /\ IF tasks["seq"].pc = "raised"
       THEN team' = [team EXCEPT !.pc = "except"]
       ELSE team' = [team EXCEPT !.pc = "final", !.final_answer = tasks["seq"].result]
    /\ RunSilent
    /\ UNCHANGED <<api, tasks, raisedIn>>

\* _get_agents_used: the branch agents by the flags of the call, then the
\* three agents of the sequential phases
GetAgentsUsed(include_rag, include_web) ==
    (IF include_rag THEN <<AgentName("rag")>> ELSE <<>>)
    \o (IF include_web THEN <<AgentName("web")>> ELSE <<>>)
    \o <<AgentName("synthesis"), Validator, AgentName("answer")>>

\* final_result["metadata"], lines 355-368 (the keys whose values are
\* strings, times or scores are left out)
FinalMetadata(t) ==
    [kind |-> "metadata",
     agents_used |-> GetAgentsUsed(t.include_rag, t.include_web),
     total_sources |-> Len(t.all_sources),
     include_rag |-> t.include_rag,
     include_web |-> t.include_web,
     parallel_execution |-> t.include_rag /\ t.include_web]

\* final_result is built, _broadcast_final_result, then "return final_result"
TeamFinal ==
    /\ team.pc = "final"
    /\ BroadcastFinalResult(RunSession)
    /\ pubLog' = Logged(pubLog, LogEntry("final_result", NoAgent, "completed"))
    /\ team' = [team EXCEPT !.pc = "done", !.outcome = "returned",
                            !.metadata = FinalMetadata(team)]
    /\ UNCHANGED <<now, api, tasks, raisedIn, calc>>

\* the except block: broadcast_error, then "raise e"
TeamExcept ==
    /\ team.pc = "except"
    /\ BroadcastError(RunSession)
    /\ pubLog' = Logged(pubLog, LogEntry("error", NoAgent, NoAgent))
    /\ team' = [team EXCEPT !.pc = "done", !.outcome = "raised"]
    /\ UNCHANGED <<now, api, tasks, raisedIn, calc>>

\* --------------------------------------------------------- specifications
NoCalc == [op |-> "none"]

InitRun ==
    /\ active_sessions = EmptyDict
    /\ session_queues = EmptyDict
    /\ session_data = EmptyDict
    /\ last_message_time = EmptyDict
    /\ now = message_throttle_interval
    /\ accepted = [s \in Sessions |-> <<>>]
    /\ delivered = [s \in Sessions |-> <<>>]
    /\ lastInfo = [s \in Sessions |-> 0]
    /\ everConnected = {}
    /\ lastOp = [op |-> "init", sid |-> NoAgent, status |-> NoAgent, ret |-> "ok"]
    /\ api = [pc |-> "idle", include_rag |-> FALSE, include_web |-> FALSE]
    /\ team = IdleTeam
    /\ tasks = [slot \in {"rag", "web", "seq"} |-> NoTask]
    /\ pubLog = EmptyLog
    /\ raisedIn = {}

Init == InitRun /\ calc = NoCalc

Tick ==
    /\ \E d \in TickSteps :
         /\ now + d <= MaxTime
         /\ now' = now + d
    /\ UNCHANGED <<busVars, runVars>>

\* the bus under any caller; Published counts the events of the current
\* connections
Published == Len(accepted["s1"]) + Len(accepted["s2"])
DoConnect == \E s \in Sessions : Connect(s) /\ UNCHANGED <<now, runVars>>
DoDisconnect == \E s \in Sessions : Disconnect(s) /\ UNCHANGED <<now, runVars>>
DoGetMessage == \E s \in Sessions : GetMessage(s) /\ UNCHANGED <<now, runVars>>
DoBroadcastProgress ==
    /\ Published < MaxEvents
    /\ \E s \in Sessions, a \in BusAgents, st \in Statuses : BroadcastProgress(s, a, st)
    /\ UNCHANGED <<now, runVars>>
DoBroadcastFinalResult ==
    /\ Published < MaxEvents
    /\ \E s \in Sessions : BroadcastFinalResult(s)
    /\ UNCHANGED <<now, runVars>>
DoBroadcastError ==
    /\ Published < MaxEvents
    /\ \E s \in Sessions : BroadcastError(s)
    /\ UNCHANGED <<now, runVars>>

Next ==
    \/ Tick
    \/ DoConnect
    \/ DoDisconnect
    \/ DoGetMessage
    \/ DoBroadcastProgress
    \/ DoBroadcastFinalResult
    \/ DoBroadcastError

Spec == Init /\ [][Next]_vars

\* one run of the pipeline, with the consumer of its session (the SSE
\* endpoint of main.py: connect, poll, disconnect)
RunConnect ==
    /\ RunSession \notin everConnected
    /\ team.pc = "idle" /\ api.pc = "idle"
    /\ Connect(RunSession)
    /\ UNCHANGED <<now, runVars>>
\* a disconnect that cancels the run in flight
RunDisconnectCancels ==
    /\ RunSession \in DOMAIN active_sessions
    /\ Disconnect(RunSession)
    /\ team' = IF team.pc \in {"idle", "done"} THEN team
               ELSE [team EXCEPT !.pc = "done", !.outcome = "cancelled"]
    /\ UNCHANGED <<now, api, tasks, pubLog, raisedIn, calc>>

RunDisconnect ==
    /\ RunSession \in DOMAIN active_sessions
    /\ Disconnect(RunSession)
    /\ UNCHANGED <<now, runVars>>

Slots == {"rag", "web", "seq"}
DoTaskPublish == \E slot \in Slots : TaskPublish(slot)
DoTaskSleep == \E slot \in Slots : TaskSleep(slot)
DoTaskStreamEvent == \E slot \in Slots : TaskStreamEvent(slot)
DoTaskCapabilityReturns == \E slot \in Slots : TaskCapabilityReturns(slot)
DoTaskCapabilityRaises == \E slot \in Slots : TaskCapabilityRaises(slot)

NextRun ==
    \/ Tick
    \/ RunConnect
    \/ RunDisconnect
    \/ HybridSearch
    \/ ApiExecuteHybridSearch
    \/ DirectCall
    \/ TeamInit
    \/ TeamFanOutBoth
    \/ TeamFanOutSingle
    \/ TeamFanOutNone
    \/ TeamJoin
    \/ TeamHandleRag
    \/ TeamHandleWeb
    \/ TeamSingle
    \/ TeamExtract
    \/ TeamSynthesis
    \/ TeamValStarted
    \/ ValAgentStarted
    \/ ValFactCheck
    \/ ValCapabilityReturns
    \/ ValCapabilityRaises
    \/ ValAgentCompleted
    \/ ValAgentFailed
    \/ TeamValReturn
    \/ TeamAnswer
    \/ TeamFinal
    \/ TeamExcept
    \/ DoTaskPublish
    \/ DoTaskSleep
    \/ DoTaskStreamEvent
    \/ DoTaskCapabilityReturns
    \/ DoTaskCapabilityRaises

SpecRun == Init /\ [][NextRun]_vars

\* Scenario D of the specification: one producer publishes `count` progress
\* events with status "processing", `gap` ticks (100 ms) apart, on a connected
\* session on which nothing else is published; the consumer polls at any time.
\* The scenario may start at any time of the clock.
ScenarioD == [count |-> 10, gap |-> 1, agent |-> "Agent", status |-> "processing"]
ScenarioDPublished == Len(DictGet(pubLog.byAgent, ScenarioD.agent, <<>>))

ScenarioDWait ==
    /\ active_sessions = EmptyDict
    /\ now < MaxTime
    /\ now' = now + 1
    /\ UNCHANGED <<busVars, runVars>>
ScenarioDConnect ==
    /\ everConnected = {}
    /\ \E s \in Sessions : Connect(s)
    /\ UNCHANGED <<now, runVars>>
ScenarioDPublish ==
    /\ ScenarioDPublished < ScenarioD.count
    /\ \E s \in DOMAIN active_sessions : BroadcastProgress(s, ScenarioD.agent, ScenarioD.status)
    /\ pubLog' = Logged(pubLog, LogEntry("progress_update", ScenarioD.agent, ScenarioD.status))
    /\ now' = now + ScenarioD.gap
    /\ UNCHANGED <<api, team, tasks, raisedIn, calc>>
ScenarioDPoll ==
    /\ \E s \in DOMAIN active_sessions : GetMessage(s)
    /\ UNCHANGED <<now, runVars>>

NextD ==
    \/ ScenarioDWait
    \/ ScenarioDConnect
    \/ ScenarioDPublish
    \/ ScenarioDPoll

SpecD == Init /\ [][NextD]_vars

\* The source list of the final result, on its own: for any two branch
\* results, the sources execute_hybrid_search extracts and attaches to
\* final_result["sources"], with max_results as passed by the caller.
SourceItems ==
    {[url |-> u, content_len |-> n, source_type |-> "web_search"] :
        u \in {"", "u1"}, n \in {0, 400}}
BranchResults(of) ==
    {NoneVal}
    \cup {Response(of, urls, <<>>) : urls \in {<<>>, <<"u1">>, <<"u1", "u1">>, <<"u1", "u2">>}}
    \cup {Response(of, <<>>, <<item>>) : item \in SourceItems}
MaxResultsInputs == {1, 2}

InitSources ==
    /\ InitRun
    /\ calc \in [op : {"sources"}, include_rag : BOOLEAN, include_web : BOOLEAN,
                  rag_result : BranchResults("rag"), web_result : BranchResults("web"),
                  max_results : MaxResultsInputs, sources : {<<>>}, done : {FALSE}]

\* lines 243-247 and 351-354: all_sources is extracted and attached as is
AttachSources ==
    /\ calc.op = "sources" /\ ~calc.done
    /\ calc' = [calc EXCEPT
           !.done = TRUE,
           !.sources = ExtractSourcesFromResults(
               <<IF calc.include_rag THEN calc.rag_result ELSE NoneVal,
                 IF calc.include_web THEN calc.web_result ELSE NoneVal>>)]
    /\ UNCHANGED <<busVars, now, api, team, tasks, pubLog, raisedIn>>

SpecSources == InitSources /\ [][AttachSources]_vars

\* ----------------------------------------------------------------- scoring
\* Scores are counted in units of 0.00001, so that every product and
\* quotient the code computes on the inputs below is exact.
Scale == 100000
Min(a, b) == IF a < b THEN a ELSE b
Max(a, b) == IF a > b THEN a ELSE b
Clamp(x, lo, hi) == Min(Max(x, lo), hi)
NoScore == -1

\* _analyze_validation without its final "min(max(confidence_score, 0.1), 0.95)"
AnalyzeValidationUnclamped(explicit, pos, neg, hq, total) ==
    LET extracted == IF explicit = NoScore THEN Scale \div 2
                     ELSE Clamp(IF explicit > Scale THEN explicit \div 100 ELSE explicit,
                                0, Scale)
        adjusted == extracted + pos * (Scale \div 20) - neg * (Scale \div 10)
    IN  IF total > 0 THEN adjusted + (hq * (Scale \div 5)) \div total ELSE adjusted

\* ValidationAgent._analyze_validation: the confidence of a report with an
\* explicit score (NoScore: none matched; above 1 it is read as a
\* percentage), pos positive and neg negative indicator words, and hq of
\* total sources on the quality-domain list
AnalyzeValidation(explicit, pos, neg, hq, total) ==
    LET extracted == IF explicit = NoScore THEN Scale \div 2
                     ELSE Clamp(IF explicit > Scale THEN explicit \div 100 ELSE explicit,
                                0, Scale)
        adjusted == extracted + pos * (Scale \div 20) - neg * (Scale \div 10)
        sourced == IF total > 0 THEN adjusted + (hq * (Scale \div 5)) \div total
                   ELSE adjusted
    IN  Clamp(sourced, Scale \div 10, (95 * Scale) \div 100)

\* ValidationAgent._perform_fact_check: claims_checked and
\* overall_verification_score, for n claims and the outcome of the sub-call
\* (it raised, it returned no content, or the indicator counts of the response)
FactCheck(n, outcome) ==
    [claims_checked |-> n,
     overall_verification_score |->
        IF n = 0 \/ outcome.kind \in {"raised", "no_content"} THEN Scale \div 2
        ELSE IF outcome.pos > outcome.neg
             THEN Min((80 * Scale) \div 100 + outcome.pos * (Scale \div 20), (95 * Scale) \div 100)
        ELSE IF outcome.neg > outcome.pos
             THEN Max((30 * Scale) \div 100 - outcome.neg * (Scale \div 10), Scale \div 10)
        ELSE (60 * Scale) \div 100]

\* validate_information, lines 151-162: the confidence it reports
BlendConfidence(base, fc) ==
    IF fc.claims_checked > 0
    THEN (base * 6 + fc.overall_verification_score * 4) \div 10
    ELSE base

\* MultiAgentSearchTeam._calculate_fallback_confidence
FallbackConfidence(hq, total, pos, neg) ==
    LET counted == (30 * Scale) \div 100
                   + (IF total >= 3 THEN Scale \div 5 ELSE 0)
                   + (IF total >= 5 THEN Scale \div 10 ELSE 0)
                   + (IF total > 0 THEN (hq * ((30 * Scale) \div 100)) \div total ELSE 0)
    IN  Clamp(counted + pos * (Scale \div 20) - neg * (Scale \div 10),
              Scale \div 10, (90 * Scale) \div 100)

\* a _calculate_quality_score that keeps a running base between calls: each
\* earlier evaluation and each connected session adds 0.01
QualityScoreCarried(answer, total, confidence) ==
    LET q == (30 * Scale) \div 100
             + (Len(calc.evals) + Cardinality(DOMAIN active_sessions)) * (Scale \div 100)
             + (IF answer.words > 100 THEN Scale \div 10 ELSE 0)
             + (IF answer.citations THEN Scale \div 5 ELSE 0)
             + (IF total >= 3 THEN Scale \div 10 ELSE 0)
    IN  Clamp((q * 7 + confidence * 3) \div 10, Scale \div 10, (95 * Scale) \div 100)

\* MultiAgentSearchTeam._calculate_quality_score
QualityScore(answer, total, confidence) ==
    LET q == (30 * Scale) \div 100
             + (IF answer.words > 100 THEN Scale \div 10 ELSE 0)
             + (IF answer.words > 300 THEN Scale \div 20 ELSE 0)
             + (IF answer.citations THEN Scale \div 5 ELSE 0)
             + (IF answer.structure THEN (15 * Scale) \div 100 ELSE 0)
             + (IF total >= 3 THEN Scale \div 10 ELSE 0)
             + (IF total >= 5 THEN Scale \div 20 ELSE 0)
    IN  Clamp((q * 7 + confidence * 3) \div 10, Scale \div 10, (95 * Scale) \div 100)

\* execute_hybrid_search, lines 292-331: the confidence of the final result
FinalConfidence(validation, hq, total, pos, neg) ==
    IF validation.status = "success" /\ validation.confidence_score # NoScore
    THEN validation.confidence_score
    ELSE FallbackConfidence(hq, total, pos, neg)

\* execute_hybrid_search, lines 333-349: the quality of the final result;
\* answer is "none" (no response), "content_none" (a response whose content
\* is None: computing the score raises) or the features of the answer text
FinalQuality(answer, total, confidence) ==
    IF answer.kind \in {"none", "content_none"}
    THEN (confidence * 8) \div 10
    ELSE QualityScore(answer, total, confidence)

ExplicitScores == {NoScore, 0, (97 * Scale) \div 100, 85 * Scale}
IndicatorCounts == {[pos |-> 0, neg |-> 0], [pos |-> 6, neg |-> 0], [pos |-> 1, neg |-> 1],
                   [pos |-> 0, neg |-> 1], [pos |-> 0, neg |-> 4]}
\* the source list as the scoring reads it: total sources, hq of them on
\* the quality-domain list, null_urls of them with "url": None (a structured
\* search result whose url is null: .get returns the None, not its default)
SourceCounts ==
    {[hq |-> c.hq, total |-> c.total, null_urls |-> 0] :
        c \in {[hq |-> 0, total |-> 0], [hq |-> 0, total |-> 2], [hq |-> 2, total |-> 2],
               [hq |-> 1, total |-> 5], [hq |-> 5, total |-> 5]}}
    \cup {[hq |-> 1, total |-> 2, null_urls |-> 1]}
\* "url = source.get('url', '').lower()" in the loop over the sources
\* (validation_agent.py line 293, team_coordinator.py line 606): an
\* AttributeError when a url is None
UrlLowerRaises(sources) == sources.null_urls > 0
FactCheckOutcomes ==
    {[kind |-> "raised"], [kind |-> "no_content"]}
    \cup {[kind |-> "counts", pos |-> c.pos, neg |-> c.neg] : c \in IndicatorCounts}
FactCheckInputs ==
    {[n |-> 0, outcome |-> [kind |-> "skipped"]]}
    \cup [n : {1, 2}, outcome : FactCheckOutcomes]
AnswerInputs ==
    {[kind |-> "none"], [kind |-> "content_none"]}
    \cup [kind : {"text"}, words : {0, 150, 400}, citations : BOOLEAN, structure : BOOLEAN]

\* one evaluation of the scores: the inputs, the run (session) it belongs
\* to, and the outcomes of the evaluations made before it on the same inputs
ScoreInputs ==
    [op : {"score"}, pc : {"validate"},
     explicit : ExplicitScores, report : IndicatorCounts,
     synthesis : {[pos |-> 0, neg |-> 0], [pos |-> 0, neg |-> 4]},
     sources : SourceCounts, fact_check : FactCheckInputs,
     validation_raises : BOOLEAN, answer : AnswerInputs,
     base_score : {NoScore},
     validation : {[status |-> "none", confidence_score |-> NoScore]},
     confidence_score : {NoScore}, quality_score : {NoScore},
     session : {RunSession}, evals : {<<>>}]

InitScore ==
    /\ InitRun
    /\ calc \in ScoreInputs

\* validate_information: the success dict with the analysis, or the error
\* dict when the validation capability or _analyze_validation raises
ScoreValidate ==
    /\ calc.op = "score" /\ calc.pc = "validate"
    /\ LET fc == FactCheck(calc.fact_check.n, calc.fact_check.outcome)
           base == AnalyzeValidation(calc.explicit, calc.report.pos, calc.report.neg,
                                     calc.sources.hq, calc.sources.total)
       IN  calc' = IF calc.validation_raises \/ UrlLowerRaises(calc.sources)
                   THEN [calc EXCEPT !.pc = "scores",
                                     !.validation = [status |-> "error",
                                                     confidence_score |-> NoScore]]
                   ELSE [calc EXCEPT !.pc = "scores", !.base_score = base,
                                     !.validation = [status |-> "success",
                                                     confidence_score |-> BlendConfidence(base, fc)]]
    /\ UNCHANGED <<busVars, now, api, team, tasks, pubLog, raisedIn>>

\* whether lines 292-331 call _calculate_fallback_confidence: the validation
\* dict carries no analysis
UsesFallback(validation) ==
    ~(validation.status = "success" /\ validation.confidence_score # NoScore)

\* execute_hybrid_search: confidence_score and quality_score of the metadata;
\* _calculate_fallback_confidence is called outside any inner try, so its
\* exception reaches the except block of the run (pc "raised": broadcast_error
\* and re-raise, no final_result)
ScoreFinal ==
    /\ calc.op = "score" /\ calc.pc = "scores"
    /\ LET c == FinalConfidence(calc.validation, calc.sources.hq, calc.sources.total,
                                calc.synthesis.pos, calc.synthesis.neg)
       IN  calc' = IF UsesFallback(calc.validation) /\ UrlLowerRaises(calc.sources)
                   THEN [calc EXCEPT !.pc = "raised"]
                   ELSE [calc EXCEPT !.pc = "done", !.confidence_score = c,
                                     !.quality_score = FinalQuality(calc.answer, calc.sources.total, c)]
    /\ UNCHANGED <<busVars, now, api, team, tasks, pubLog, raisedIn>>

NextScore ==
    \/ ScoreValidate
    \/ ScoreFinal

SpecScore == InitScore /\ [][NextScore]_vars

\* Repeated evaluation: the same report, fact-check response, answer and
\* sources are scored again by the run of any session, while connections
\* come and go and events are published on the manager.
EvalOutcome(c) ==
    [pc |-> c.pc, reported |-> c.validation.confidence_score,
     confidence_score |-> c.confidence_score, quality_score |-> c.quality_score,
     session |-> c.session]

ScoreAgain ==
    /\ calc.op = "score" /\ calc.pc \in {"done", "raised"}
    /\ Len(calc.evals) < MaxEvals
    /\ \E s \in Sessions :
         calc' = [calc EXCEPT
            !.evals = Append(@, EvalOutcome(calc)),
            !.session = s, !.pc = "validate", !.base_score = NoScore,
            !.validation = [status |-> "none", confidence_score |-> NoScore],
            !.confidence_score = NoScore, !.quality_score = NoScore]
    /\ UNCHANGED <<busVars, now, api, team, tasks, pubLog, raisedIn>>

InitAgain ==
    /\ InitRun
    /\ calc \in {c \in ScoreInputs :
                    /\ c.explicit \in {NoScore, (97 * Scale) \div 100}
                    /\ c.report.pos = 0 /\ c.report.neg \in {0, 4}
                    /\ c.synthesis.neg = 0
                    /\ c.sources.total \in {0, 2}
                    /\ (c.sources.hq = 1 => c.sources.null_urls > 0)
                    /\ c.fact_check.n < 2
                    /\ c.fact_check.outcome.kind \in {"skipped", "counts"}
                    /\ c.fact_check.outcome.kind = "counts" => c.fact_check.outcome.pos = 6
                    /\ c.answer.kind # "none"
                    /\ c.answer.kind = "text" =>
                          c.answer.words = 150 /\ c.answer.citations /\ c.answer.structure}

\* validate_information publishes the validator's "completed" (line 166) on
\* the session of the run
AgainPublish ==
    /\ calc.op = "score"
    /\ Published < MaxEvents
    /\ BroadcastProgress(calc.session, Validator, "completed")
    /\ UNCHANGED <<now, runVars>>

NextAgain ==
    \/ ScoreValidate
    \/ ScoreFinal
    \/ ScoreAgain
    \/ DoConnect
    \/ AgainPublish

SpecAgain == InitAgain /\ [][NextAgain]_vars

\* ------------------------------------------------ the transport loop
\* sse_endpoint.event_stream: each GET /sse/{session_id} runs its own
\* generator (stream), here for the one session RunSession, with any
\* publisher: connect, then per iteration one get_message and at most one
\* yield, until the stream is cancelled and the finally block disconnects.
\* History, per stream: what the last iteration polled and yielded, and the
\* number of consecutive polls that returned none since the last yield
\* (nones, nones_before).
StreamIds == {1, 2}
IdleStream ==
    [pc |-> "idle", heartbeat_counter |-> 0,
     polled |-> "-", yielded |-> "-", nones |-> 0, nones_before |-> 0]

\* a test that lets the counter pass the configured number
HeartbeatDueLate(counter) == counter > HeartbeatEvery

\* "if heartbeat_counter >= 10"
HeartbeatDue(counter) == counter >= HeartbeatEvery

InitStream == InitRun /\ calc = [op |-> "stream", streams |-> [i \in StreamIds |-> IdleStream]]

StreamConnect(i) ==
    /\ calc.op = "stream" /\ calc.streams[i].pc \in {"idle", "closed"}
    /\ Connect(RunSession)
    /\ calc' = [calc EXCEPT !.streams[i] = [IdleStream EXCEPT !.pc = "polling"]]
    /\ UNCHANGED <<now, api, team, tasks, pubLog, raisedIn>>

\* one iteration of "while True"
StreamIterate(i) ==
    /\ calc.op = "stream" /\ calc.streams[i].pc = "polling"
    /\ GetMessage(RunSession)
    /\ LET message == QueueKnown(RunSession) /\ session_queues[RunSession] # <<>>
           st == calc.streams[i]
           counted == st.heartbeat_counter + 1
       IN  calc' = [calc EXCEPT !.streams[i] =
                   IF message
                   THEN [st EXCEPT !.heartbeat_counter = 0, !.polled = "message",
                                   !.yielded = "message",
                                   !.nones_before = st.nones, !.nones = 0]
                   ELSE IF HeartbeatDue(counted)
                   THEN [st EXCEPT !.heartbeat_counter = 0, !.polled = "none",
                                   !.yielded = "heartbeat",
                                   !.nones_before = st.nones, !.nones = 0]
                   ELSE [st EXCEPT !.heartbeat_counter = counted, !.polled = "none",
                                   !.yielded = "nothing",
                                   !.nones_before = st.nones, !.nones = st.nones + 1]]
    /\ UNCHANGED <<now, api, team, tasks, pubLog, raisedIn>>

\* the stream is cancelled at its sleep: "finally: disconnect"
StreamCancel(i) ==
    /\ calc.op = "stream" /\ calc.streams[i].pc = "polling"
    /\ Disconnect(RunSession)
    /\ calc' = [calc EXCEPT !.streams[i].pc = "closed"]
    /\ UNCHANGED <<now, api, team, tasks, pubLog, raisedIn>>

StreamPublish ==
    /\ calc.op = "stream"
    /\ Published < MaxEvents
    /\ \/ \E st \in Statuses : BroadcastProgress(RunSession, "Agent", st)
       \/ BroadcastFinalResult(RunSession)
       \/ BroadcastError(RunSession)
    /\ UNCHANGED <<now, runVars>>

\* one consumer of the session
NextStream ==
    \/ StreamConnect(1)
    \/ StreamIterate(1)
    \/ StreamCancel(1)
    \/ StreamPublish

SpecStream == InitStream /\ [][NextStream]_vars

\* two requests for the same session id
NextStreams ==
    \/ \E i \in StreamIds : StreamConnect(i)
    \/ \E i \in StreamIds : StreamIterate(i)
    \/ \E i \in StreamIds : StreamCancel(i)
    \/ StreamPublish

SpecStreams == InitStream /\ [][NextStreams]_vars

\* ------------------------------------- ContentProcessor.process_search_results
\* A search result as the processor reads it: its url ("": absent; "file":
\* a string urlparse gives no scheme or netloc for), and the lengths of its
\* snippet and title with the number of characters _clean_text removes
SearchResultInputs ==
    [url : {"", "file", "u1", "u2"},
     snippet : {[len |-> 10, removed |-> 0], [len |-> 60, removed |-> 0],
                [len |-> 60, removed |-> 15]},
     title : {[len |-> 0, removed |-> 0], [len |-> 8, removed |-> 0]}]

\* _clean_text: whitespace runs collapsed, special characters removed
CleanTextLen(text) == text.len - text.removed

\* _clean_result
CleanResult(result) ==
    [url |-> result.url,
     content_len |-> CleanTextLen(result.snippet),
     title_len |-> CleanTextLen(result.title)]

\* _is_valid_url: a scheme and a netloc that is not blocked
IsValidUrl(url) == url \notin {"", "file"}

\* _is_valid_result
IsValidResult(result) ==
    /\ ~(result.content_len < min_content_length)
    /\ result.url # "" /\ IsValidUrl(result.url)
    /\ ~(result.title_len < 5)

\* the loop of process_search_results from position i on, with the urls
\* seen and the results kept so far
RECURSIVE ProcessFrom(_, _, _, _)
ProcessFrom(results, i, seen_urls, processed_results) ==
    IF i > Len(results) THEN processed_results
    ELSE IF results[i].url \in seen_urls
    THEN ProcessFrom(results, i + 1, seen_urls, processed_results)
    ELSE LET processed_result == CleanResult(results[i]) IN
         ProcessFrom(results, i + 1, seen_urls \cup {results[i].url},
                     IF IsValidResult(processed_result)
                     THEN Append(processed_results, processed_result)
                     ELSE processed_results)

ProcessSearchResults(results) == ProcessFrom(results, 1, {}, <<>>)

InitProcess ==
    /\ InitRun
    /\ \E n \in 0..MaxInputLen :
         calc \in [op : {"process"}, results : [1..n -> SearchResultInputs],
                   output : {<<>>}, done : {FALSE}]

ProcessResults ==
    /\ calc.op = "process" /\ ~calc.done
    /\ calc' = [calc EXCEPT !.done = TRUE, !.output = ProcessSearchResults(calc.results)]
    /\ UNCHANGED <<busVars, now, api, team, tasks, pubLog, raisedIn>>

SpecProcess == InitProcess /\ [][ProcessResults]_vars

TypeOK ==
    /\ DOMAIN active_sessions \subseteq Sessions
    /\ DOMAIN session_queues = DOMAIN active_sessions
    /\ DOMAIN last_message_time \subseteq Sessions

\* ------------------------------------------------------------------ claims
Uids(q) == [i \in 1..Len(q) |-> q[i].uid]
IsTerminal(e) == e.type \in {"final_result", "error"}
Connected(s) == s \in DOMAIN active_sessions
PublishOps == {"broadcast_progress", "broadcast_final_result", "broadcast_error"}
RunEnded == team.pc = "done" \/ api.pc = "done"
Sections(ctx) == {ctx[i].of : i \in 1..Len(ctx)}
SourcesOf(srcs) == {srcs[i].of : i \in 1..Len(srcs)}
PhaseSet == {team.phases[i] : i \in 1..Len(team.phases)}
TerminalSet == {pubLog.terminals[i] : i \in 1..Len(pubLog.terminals)}

C2_ExactlyOneTerminal ==
    (RunEnded /\ Connected(RunSession)) =>
        /\ Len(SelectSeq(session_queues[RunSession], IsTerminal)) = 1
        /\ IsTerminal(session_queues[RunSession][Len(session_queues[RunSession])])

C2_Witness ==
    /\ api.pc = "done"
    /\ Connected(RunSession)
    /\ session_queues[RunSession] = <<>>
    /\ pubLog = EmptyLog

\* C3: with both retrieval branches enabled, when only retrieval branches
\* raise (one or both), the exception does not leave the join: the failed
\* branch contributes no section and no source, the other branch's result is
\* used, synthesis, validation and answer run, the run returns and publishes
\* final_result and no error.
C3_BranchFailureIsolated ==
    (team.include_rag /\ team.include_web /\ raisedIn # {} /\ raisedIn \subseteq {"rag", "web"}) =>
        /\ team.pc # "except"
        /\ team.pc = "done" =>
             /\ team.outcome = "returned"
             /\ pubLog.terminals = <<"final_result">>
             /\ team.phases = <<"retrieval", "synthesis", "validation", "answer">>
             /\ Sections(team.combined_context) \cap raisedIn = {}
             /\ SourcesOf(team.all_sources) \cap raisedIn = {}
             /\ {"rag", "web"} \ raisedIn \subseteq Sections(team.combined_context)
             /\ {"rag", "web"} \ raisedIn \subseteq SourcesOf(team.all_sources)
             /\ \A k \in raisedIn :
                  (IF k = "rag" THEN team.rag_result ELSE team.web_result) = NoneVal
             /\ Connected(RunSession) =>
                  session_queues[RunSession][Len(session_queues[RunSession])].type = "final_result"

C3_Witness ==
    /\ team.pc = "done" /\ team.include_rag /\ team.include_web
    /\ raisedIn = {"rag"}
    /\ team.outcome = "returned"
    /\ Connected(RunSession)

\* C4 (as stated): with exactly one retrieval branch enabled, when that branch
\* raises (and nothing else does), the run still completes: the sequential
\* phases run, the run returns and publishes final_result and no error.
C4_SingleBranchIsolated ==
    (team.pc = "done" /\ team.include_rag # team.include_web
       /\ raisedIn # {} /\ raisedIn \subseteq {"rag", "web"}) =>
        /\ team.outcome = "returned"
        /\ pubLog.terminals = <<"final_result">>
        /\ team.phases = <<"retrieval", "synthesis", "validation", "answer">>

C4_Witness ==
    /\ team.pc = "done" /\ team.include_rag /\ ~team.include_web
    /\ raisedIn = {"rag"}
    /\ team.outcome = "raised"
    /\ pubLog.terminals = <<"error">>
    /\ team.phases = <<"retrieval">>

\* C5: when the synthesis phase or the answer phase raises, no later phase is
\* started, and once the run has ended it has raised to its caller, the error
\* event is the last event it published, and it published no final_result.
C5_PhaseFailureAborts ==
    /\ "synthesis" \in raisedIn =>
         /\ team.pc \in {"synthesis", "except", "done"}
         /\ PhaseSet \cap {"validation", "answer"} = {}
    /\ "answer" \in raisedIn => team.pc \in {"answer", "except", "done"}
    /\ (team.pc = "done" /\ raisedIn \cap {"synthesis", "answer"} # {}) =>
         /\ team.outcome = "raised"
         /\ pubLog.last.type = "error"
         /\ pubLog.terminals = <<"error">>
         /\ team.final_answer = Unbound
         /\ Connected(RunSession) =>
              session_queues[RunSession][Len(session_queues[RunSession])].type = "error"

C5_Witness ==
    /\ team.pc = "done"
    /\ "answer" \in raisedIn
    /\ team.outcome = "raised"
    /\ Connected(RunSession)
    /\ Len(session_queues[RunSession]) >= 2

\* C6 (as stated): when the validation capability raises, the run ends with
\* an Error, the last event published for the session is an error event, and
\* no final_result is published.
C6_ValidationFailureAborts ==
    (team.pc = "done" /\ "validation" \in raisedIn) =>
        /\ team.outcome = "raised"
        /\ pubLog.last.type = "error"
        /\ "final_result" \notin TerminalSet

C6_Witness ==
    /\ team.pc = "done"
    /\ raisedIn = {"validation"}
    /\ team.outcome = "returned"
    /\ pubLog.terminals = <<"final_result">>
    /\ pubLog.byAgent[Validator] = <<"started", "started", "failed", "completed">>

\* C7 (as stated): on a connected session, a broadcast_progress call with
\* status started, completed, failed or error is enqueued, however little time
\* has passed since the previous accepted publish.
C7_AlwaysPassEnqueued ==
    (lastOp.op = "broadcast_progress" /\ Connected(lastOp.sid) /\ lastOp.status \in AlwaysPass)
        => lastOp.ret = "enqueued"

C7_Witness ==
    /\ lastOp.op = "broadcast_progress" /\ lastOp.status = "error"
    /\ Connected(lastOp.sid)
    /\ lastOp.ret = "throttled"

\* C8: whenever a progress event with a status outside the always-pass set is
\* enqueued for a session, at least one throttle interval has passed since
\* the previous such event was enqueued for that session, whatever lifecycle
\* events were published in between; so of such publishes within a window
\* shorter than the interval at most one is enqueued.
C8_InfoEventsSpaced ==
    [][\A s \in Sessions :
         (/\ lastOp'.op = "broadcast_progress" /\ lastOp'.sid = s
          /\ lastOp'.status \notin AlwaysPass
          /\ accepted'[s] # accepted[s]
          /\ lastInfo[s] # 0)
         => now - lastInfo[s] >= message_throttle_interval]_vars

C8_Witness ==
    \E s \in DOMAIN session_queues :
        /\ Len(session_queues[s]) = 3
        /\ session_queues[s][1].status = "processing"
        /\ session_queues[s][2].status = "started"
        /\ session_queues[s][3].status = "processing"

\* C9 (as stated): in scenario D, once the 10 events are published, exactly 1
\* of them was enqueued.
C9_ScenarioDExactlyOne ==
    ScenarioDPublished = ScenarioD.count =>
        \A s \in DOMAIN active_sessions : Len(accepted[s]) = 1

\* C9 (amended): in scenario D the first event is enqueued, the next four are
\* dropped, and the sixth, published a full throttle interval after the
\* first, is enqueued too: exactly 2 of the 10 are enqueued.
C9_ScenarioDExactlyTwo ==
    \A s \in DOMAIN active_sessions :
        Len(accepted[s]) = (IF ScenarioDPublished = 0 THEN 0
                            ELSE IF ScenarioDPublished <= message_throttle_interval THEN 1
                            ELSE 2)

C9_Witness ==
    /\ ScenarioDPublished = ScenarioD.count
    /\ \E s \in DOMAIN active_sessions : Len(accepted[s]) = 2 /\ Len(delivered[s]) = 1

\* C10: a publish to a session id that was never connected is dropped, does
\* not raise and creates no queue; get_message on a never-connected id
\* returns none; and a connect leaves the session with an empty queue.
C10_NeverConnected ==
    /\ \A s \in Sessions \ everConnected :
         s \notin DOMAIN session_queues /\ s \notin DOMAIN active_sessions
    /\ (lastOp.op \in PublishOps /\ lastOp.sid \notin everConnected) => lastOp.ret = "dropped"
    /\ (lastOp.op = "get_message" /\ lastOp.sid \notin everConnected) => lastOp.ret = "none"
    /\ lastOp.op = "connect" => session_queues[lastOp.sid] = <<>>

C10_Witness ==
    /\ lastOp.op \in PublishOps
    /\ lastOp.sid \notin everConnected
    /\ lastOp.ret = "dropped"
    /\ \E s \in DOMAIN session_queues : session_queues[s] # <<>>

\* C11 (as stated): connect is idempotent: a connect call on a session that
\* is already connected leaves the session's queue as it was, so the events
\* enqueued before it are still returned afterwards.
C11_ConnectIdempotent ==
    [][\A s \in DOMAIN session_queues :
         (lastOp'.op = "connect" /\ lastOp'.sid = s)
         => (s \in DOMAIN session_queues' /\ session_queues'[s] = session_queues[s])]_vars

\* the steps of the run itself (the coordinator and its wrapped agents)
RunStep ==
    \/ TeamInit \/ TeamFanOutBoth \/ TeamFanOutSingle \/ TeamFanOutNone
    \/ TeamJoin \/ TeamHandleRag \/ TeamHandleWeb \/ TeamSingle
    \/ TeamExtract \/ TeamSynthesis \/ TeamValStarted \/ ValAgentStarted
    \/ ValFactCheck \/ ValCapabilityReturns \/ ValCapabilityRaises
    \/ ValAgentCompleted \/ ValAgentFailed \/ TeamValReturn \/ TeamAnswer
    \/ TeamFinal \/ TeamExcept
    \/ DoTaskPublish \/ DoTaskSleep \/ DoTaskCapabilityReturns
    \/ DoTaskCapabilityRaises

\* how a run ends, from its inputs and the capability calls that raised
RunOutcome(ir, iw, raised) ==
    IF raised \cap {"synthesis", "answer"} # {}
       \/ (ir # iw /\ raised \cap {"rag", "web"} # {})
    THEN "raised" ELSE "returned"

\* C12: whether or not the consumer is (still) connected, a run in flight
\* can always take its next step, a publish for the disconnected session is
\* dropped and creates no queue, and the run ends as its inputs and
\* capability outcomes alone determine: when nothing raised, every phase ran
\* and the run returned the answer and made its final_result publish.
C12_DisconnectDoesNotAffectRun ==
    /\ team.pc \notin {"idle", "done"} => ENABLED RunStep
    /\ (lastOp.op \in PublishOps /\ ~Connected(lastOp.sid)) =>
         (lastOp.ret = "dropped" /\ lastOp.sid \notin DOMAIN session_queues)
    /\ team.pc = "done" =>
         /\ team.outcome = RunOutcome(team.include_rag, team.include_web, raisedIn)
         /\ raisedIn = {} =>
              /\ team.phases = (IF team.include_rag \/ team.include_web
                                THEN <<"retrieval">> ELSE <<>>)
                               \o <<"synthesis", "validation", "answer">>
              /\ HasContent(team.final_answer)
              /\ team.all_sources = ExtractSourcesFromResults(
                     <<IF team.include_rag THEN tasks["rag"].result ELSE NoneVal,
                       IF team.include_web THEN tasks["web"].result ELSE NoneVal>>)
              /\ pubLog.terminals = <<"final_result">>

C12_Witness ==
    /\ team.pc = "done" /\ raisedIn = {}
    /\ team.outcome = "returned"
    /\ RunSession \in DOMAIN last_message_time
    /\ ~Connected(RunSession)
    /\ lastOp.op = "broadcast_final_result" /\ lastOp.ret = "dropped"

Finished(t) == t.pc \in {"returned", "raised"}
InProgress(kind) ==
    CASE kind \in {"rag", "web"} -> tasks[kind].kind = kind /\ ~Finished(tasks[kind])
      [] kind \in {"synthesis", "answer"} -> tasks["seq"].kind = kind /\ ~Finished(tasks["seq"])
      [] kind = "validation" ->
           team.pc \in {"v_a_started", "v_factcheck", "v_capability", "v_a_completed",
                        "v_a_failed", "val_return"}
IsPrefix(p, q) == Len(p) <= Len(q) /\ \A i \in 1..Len(p) : p[i] = q[i]

\* C13: the phases start in the order retrieval, synthesis, validation,
\* answer; synthesis is started only when every enabled retrieval branch has
\* finished (returned or raised), validation only when synthesis has
\* returned, answer only when validation has returned; and no sequential
\* phase is in progress together with another phase.
C13_PhasesInOrder ==
    /\ IsPrefix(team.phases, (IF team.include_rag \/ team.include_web
                               THEN <<"retrieval">> ELSE <<>>)
                              \o <<"synthesis", "validation", "answer">>)
    /\ "synthesis" \in PhaseSet =>
         /\ team.include_rag => Finished(tasks["rag"])
         /\ team.include_web => Finished(tasks["web"])
    /\ "validation" \in PhaseSet =>
         /\ HasContent(team.synthesis_result)
         /\ tasks["seq"].kind = "synthesis" => tasks["seq"].pc = "returned"
    /\ "answer" \in PhaseSet => team.validation_result.kind = "dict"
    /\ tasks["seq"].kind = "synthesis" => "synthesis" \in PhaseSet
    /\ InProgress("validation") => "validation" \in PhaseSet
    /\ tasks["seq"].kind = "answer" => "answer" \in PhaseSet
    /\ \A k \in {"synthesis", "validation", "answer"} :
         InProgress(k) =>
             \A j \in {"rag", "web", "synthesis", "validation", "answer"} \ {k} :
                 ~InProgress(j)

C13_Witness ==
    /\ team.include_rag /\ team.include_web
    /\ InProgress("answer")
    /\ tasks["rag"].pc = "raised" /\ tasks["web"].pc = "returned"
    /\ team.phases = <<"retrieval", "synthesis", "validation", "answer">>

\* A run under the scheduling the code has: the event loop runs every step
\* of the coordinator and of its wrapped agents that is ready (weak
\* fairness); whether and when a capability call (a model or search call of
\* an agent) returns, raises or streams an event is up to the capability.
\* The code sets no timer on any of these awaits.
CodeStep ==
    \/ TeamInit \/ TeamFanOutBoth \/ TeamFanOutSingle \/ TeamFanOutNone
    \/ TeamJoin \/ TeamHandleRag \/ TeamHandleWeb \/ TeamSingle
    \/ TeamExtract \/ TeamSynthesis \/ TeamValStarted \/ ValAgentStarted
    \/ ValFactCheck \/ ValAgentCompleted \/ ValAgentFailed \/ TeamValReturn
    \/ TeamAnswer \/ TeamFinal \/ TeamExcept
    \/ DoTaskPublish \/ DoTaskSleep
CapabilityStep ==
    \/ DoTaskStreamEvent
    \/ DoTaskCapabilityReturns
    \/ DoTaskCapabilityRaises
    \/ ValCapabilityReturns
    \/ ValCapabilityRaises

NextT ==
    \/ RunConnect
    \/ DirectCall
    \/ CodeStep
    \/ CapabilityStep

SpecT == Init /\ [][NextT]_vars /\ WF_vars(CodeStep)

\* C14 (as stated): every run that was started eventually ends, with
\* final_result or error, also when a capability call never returns (the
\* phase is then failed by its timeout).
C14_RunTerminates == (team.pc = "init") ~> (team.pc = "done")

\* the minimum length of a content snippet the specification's aggregator
\* requires (any positive value)
MinContentLength == 1

\* C15 (as stated): the source list attached to the final result holds no
\* two sources with the same url.
C15_NoDuplicateUrls ==
    (calc.op = "sources" /\ calc.done) =>
        \A i, j \in 1..Len(calc.sources) :
            i # j => calc.sources[i].url # calc.sources[j].url

C15_Witness ==
    /\ calc.op = "sources" /\ calc.done
    /\ calc.include_rag /\ calc.include_web
    /\ calc.rag_result = Response("rag", <<"u1">>, <<>>)
    /\ calc.web_result = Response("web", <<"u1", "u2">>, <<>>)
    /\ Len(calc.sources) = 3

\* C16 (as stated): no source attached to the final result has an empty url
\* or a content snippet shorter than the minimum length.
C16_NoEmptyOrShortSource ==
    (calc.op = "sources" /\ calc.done) =>
        \A i \in 1..Len(calc.sources) :
            /\ calc.sources[i].url # ""
            /\ calc.sources[i].content_len >= MinContentLength

C16_Witness ==
    /\ calc.op = "sources" /\ calc.done
    /\ \E i \in 1..Len(calc.sources) :
         calc.sources[i].source_type = "extracted" /\ calc.sources[i].content_len = 0

\* C17 (as stated): the number of sources attached to the final result is
\* at most max_results.
C17_AtMostMaxResults ==
    (calc.op = "sources" /\ calc.done) => Len(calc.sources) <= calc.max_results

C17_Witness ==
    /\ calc.op = "sources" /\ calc.done
    /\ calc.max_results = 1
    /\ Len(calc.sources) = 4

InScoreRange(x) == (Scale \div 10) <= x /\ x <= (95 * Scale) \div 100

\* C18: the confidence score of the final result lies in [0.1, 0.95] on
\* every path: the validator's analysis, blended with a fact-check score or
\* not, and the source-count fallback used when validation gave no analysis;
\* so does the confidence validate_information reports.
C18_ConfidenceInRange ==
    calc.op = "score" =>
        /\ calc.validation.status = "success" => InScoreRange(calc.validation.confidence_score)
        /\ calc.pc = "done" => InScoreRange(calc.confidence_score)

C18_Witness ==
    /\ calc.op = "score" /\ calc.pc = "done"
    /\ calc.fact_check.n > 0
    /\ calc.base_score = (95 * Scale) \div 100
    /\ calc.confidence_score = (95 * Scale) \div 100
    /\ calc.sources.total = 0

C20_BlendOnlyWhenFactChecked ==
    (calc.op = "score" /\ calc.validation.status = "success") =>
        calc.validation.confidence_score =
            (IF calc.fact_check.n > 0 /\ calc.fact_check.outcome.kind = "counts"
             THEN (calc.base_score * 6
                   + FactCheck(calc.fact_check.n, calc.fact_check.outcome).overall_verification_score * 4)
                  \div 10
             ELSE calc.base_score)

C20_Witness ==
    /\ calc.op = "score" /\ calc.validation.status = "success"
    /\ calc.fact_check.n > 0 /\ calc.fact_check.outcome.kind = "raised"
    /\ calc.base_score = (95 * Scale) \div 100
    /\ calc.validation.confidence_score = (77 * Scale) \div 100

\* C21 (as stated): an unusable scoring input never makes the run fail: with
\* a source whose url is null, or an answer without text, the scores fall
\* back to a default and the run ends with final_result, not with an error.
C21_ScoringNeverFails ==
    (calc.op = "score" /\ calc.pc \notin {"validate", "scores"}) =>
        /\ calc.pc = "done"
        /\ calc.confidence_score # NoScore
        /\ calc.quality_score # NoScore

\* a null url: validation returns its error dict, the fallback raises
C21_Witness ==
    /\ calc.op = "score" /\ calc.pc = "raised"
    /\ calc.sources.null_urls > 0
    /\ calc.validation.status = "error"
    /\ ~calc.validation_raises

Scores(e) ==
    [pc |-> e.pc, reported |-> e.reported,
     confidence_score |-> e.confidence_score, quality_score |-> e.quality_score]

SessionState(b) ==
    [connected |-> b \in DOMAIN active_sessions,
     has_queue |-> b \in DOMAIN session_queues,
     queue |-> DictGet(session_queues, b, <<>>),
     has_stamp |-> b \in DOMAIN last_message_time,
     stamp |-> DictGet(last_message_time, b, 0)]

\* C23: sessions are isolated: a connect, publish, poll or disconnect on
\* session a leaves the queue, the connection status and the throttle
\* timestamp of every other session b unchanged.
C23_SessionsIsolated ==
    [][\A a \in Sessions, b \in Sessions :
          (a # b /\ lastOp'.sid = a) => SessionState(b)' = SessionState(b)]_vars

\* session s1 connected, with a queued event and a throttle timestamp, right
\* after a disconnect of s2
C23_Witness ==
    /\ lastOp.op = "disconnect" /\ lastOp.sid = "s2"
    /\ "s2" \in everConnected
    /\ "s1" \in DOMAIN active_sessions
    /\ DictGet(session_queues, "s1", <<>>) # <<>>
    /\ "s1" \in DOMAIN last_message_time

\* C24: the transport yields a heartbeat exactly when the tenth consecutive
\* poll since its last yield returned none; a delivered message restarts the
\* count; and no queue ever holds a heartbeat: the publish operations
\* enqueue only progress_update, final_result and error events.
C24_HeartbeatEveryTenEmptyPolls ==
    /\ calc.op = "stream" =>
          \A i \in StreamIds :
              LET st == calc.streams[i] IN
              st.polled # "-" =>
                  /\ st.yielded = "heartbeat" <=>
                        (st.polled = "none" /\ st.nones_before + 1 = 10)
                  /\ st.polled = "message" => (st.yielded = "message" /\ st.nones = 0)
                  /\ st.heartbeat_counter = st.nones
    /\ \A s \in DOMAIN session_queues : \A i \in 1..Len(session_queues[s]) :
          session_queues[s][i].type \in {"progress_update", "final_result", "error"}

\* a heartbeat, after an earlier message, with an event waiting again
C24_Witness ==
    /\ calc.op = "stream" /\ calc.streams[1].yielded = "heartbeat"
    /\ calc.streams[1].nones_before = 9
    /\ delivered[RunSession] # <<>>
    /\ DictGet(session_queues, RunSession, <<>>) # <<>>

Range(f) == {f[i] : i \in DOMAIN f}
FailedBranches == raisedIn \cap {"rag", "web"}

\* C25 (as stated): when a retrieval branch failed and the run still
\* returned, the metadata of the final result names the failed branch under
\* branch_failure and does not list its agent among agents_used.
C25_ReducedCoverageRecorded ==
    (team.pc = "done" /\ team.outcome = "returned") =>
        \A b \in FailedBranches :
            /\ "branch_failure" \in DOMAIN team.metadata
            /\ AgentName(b) \notin Range(team.metadata.agents_used)

\* the knowledge-base branch failed, the web branch gave sources, the run
\* returned, and the metadata lists the failed branch's agent and has no
\* branch_failure entry
C25_Witness ==
    /\ team.pc = "done" /\ team.outcome = "returned"
    /\ FailedBranches = {"rag"}
    /\ Len(team.all_sources) > 0
    /\ AgentName("rag") \in Range(team.metadata.agents_used)
    /\ "branch_failure" \notin DOMAIN team.metadata

\* the agent whose events belong to the invocation of a phase
PhaseAgent(kind) == IF kind = "validation" THEN Validator ELSE AgentName(kind)
PhaseKinds == {"rag", "web", "synthesis", "validation", "answer"}

\* C26 (as stated): the events published for each phase invocation follow
\* the lifecycle protocol under any interleaving of the branches: the first
\* is "started", never both a "failed" and a "completed" event are published
\* for it, and once the run has ended the last one is "failed" if the
\* invocation raised and "completed" if it succeeded.
C26_LifecycleProtocol ==
    \A kind \in PhaseKinds :
        LET seq == DictGet(pubLog.byAgent, PhaseAgent(kind), <<>>) IN
        seq # <<>> =>
            /\ seq[1] = "started"
            /\ ~({"failed", "completed"} \subseteq Range(seq))
            /\ team.pc = "done" =>
                  seq[Len(seq)] = (IF kind \in raisedIn THEN "failed" ELSE "completed")

\* the validation capability raised: the validator published "failed", the
\* coordinator then "completed" for the same invocation, and the run returned
C26_Witness ==
    /\ team.pc = "done" /\ team.outcome = "returned"
    /\ "validation" \in raisedIn
    /\ DictGet(pubLog.byAgent, Validator, <<>>) = <<"started", "started", "failed", "completed">>

\* C27 (as stated): after disconnect(s) the manager holds nothing for s:
\* the active flag, the queue, the throttle timestamp and the session record
\* are all removed; and a publish is throttled only by a publish accepted on
\* the current connection, never by one made before a disconnect.
C27_DisconnectRemovesAllState ==
    /\ lastOp.op = "disconnect" =>
          /\ lastOp.sid \notin DOMAIN active_sessions
          /\ lastOp.sid \notin DOMAIN session_queues
          /\ lastOp.sid \notin DOMAIN last_message_time
          /\ lastOp.sid \notin DOMAIN session_data
    /\ lastOp.ret = "throttled" => accepted[lastOp.sid] # <<>>

\* a reconnected session whose first informational publish is throttled by
\* the timestamp left from before the disconnect
C27_Witness ==
    /\ lastOp.op = "broadcast_progress" /\ lastOp.ret = "throttled"
    /\ Connected(lastOp.sid)
    /\ accepted[lastOp.sid] = <<>>
    /\ lastOp.sid \in DOMAIN last_message_time

Polling(i) == calc.op = "stream" /\ calc.streams[i].pc = "polling"

\* C28 (as stated): with two streams on one session id, the stream that
\* stays connected keeps its events: a connect made while another stream is
\* polling leaves the queued events in place, and a disconnect made while
\* another stream goes on polling leaves the session its queue.
C28_RemainingStreamKeepsQueue ==
    [][/\ (lastOp'.op = "connect" /\ \E i \in StreamIds : Polling(i)) =>
            DictGet(session_queues', RunSession, <<>>) = DictGet(session_queues, RunSession, <<>>)
       /\ (lastOp'.op = "disconnect" /\ \E i \in StreamIds : Polling(i)') =>
            RunSession \in DOMAIN session_queues']_vars

\* stream 1 still polls after stream 2 was closed: the session has no queue
\* and no active flag, the poll returns none and a publish is dropped
C28_Witness ==
    /\ Polling(1) /\ calc.streams[2].pc = "closed"
    /\ RunSession \notin DOMAIN session_queues
    /\ ~Connected(RunSession)
    /\ calc.streams[1].polled = "none"
    /\ lastOp.op \in PublishOps /\ lastOp.ret = "dropped"

TerminalOps == {"broadcast_final_result", "broadcast_error"}

\* C29: broadcast_final_result and broadcast_error are never throttled: on
\* a connected session every such call puts its event at the tail of the
\* session's queue, whatever the time since the last accepted publish, and
\* no such call changes a throttle timestamp.
C29_TerminalPublishesNotThrottled ==
    [][lastOp'.op \in TerminalOps =>
          /\ last_message_time' = last_message_time
          /\ lastOp'.sid \in DOMAIN active_sessions' =>
                /\ lastOp'.ret = "enqueued"
                /\ session_queues'[lastOp'.sid] # <<>>
                /\ LET q == session_queues'[lastOp'.sid] IN
                     /\ q[Len(q)].type =
                          (IF lastOp'.op = "broadcast_error" THEN "error" ELSE "final_result")
                     /\ q[Len(q)].uid = Len(accepted'[lastOp'.sid])]_vars

\* an error event enqueued within the throttle interval of the progress
\* publish accepted before it on the same connection
C29_Witness ==
    /\ lastOp.op = "broadcast_error" /\ lastOp.ret = "enqueued"
    /\ lastOp.sid \in DOMAIN last_message_time
    /\ now - last_message_time[lastOp.sid] < message_throttle_interval
    /\ Len(accepted[lastOp.sid]) = 2

\* C30 (as stated): process_search_results returns at most one result per
\* url and loses no url that has a usable result: if some input result with
\* url u passes the validity check, the output holds a result with url u,
\* also when an invalid result with url u comes earlier in the input.
C30_NoUsableUrlLost ==
    (calc.op = "process" /\ calc.done) =>
        /\ \A i \in 1..Len(calc.output), j \in 1..Len(calc.output) :
              calc.output[i].url = calc.output[j].url => i = j
        /\ \A i \in 1..Len(calc.results) :
              IsValidResult(CleanResult(calc.results[i])) =>
                  \E j \in 1..Len(calc.output) : calc.output[j].url = calc.results[i].url

\* an invalid result for u1 followed by a valid one: nothing is returned
C30_Witness ==
    /\ calc.op = "process" /\ calc.done
    /\ Len(calc.results) = 2
    /\ calc.results[1].url = "u1" /\ calc.results[2].url = "u1"
    /\ ~IsValidResult(CleanResult(calc.results[1]))
    /\ IsValidResult(CleanResult(calc.results[2]))
    /\ calc.output = <<>>
====
